---- MODULE Spec2Model ----
(***************************************************************************)
(* Model of worker/handler.py: the Handler class that bridges an           *)
(* orchestrator (requests, notifications over a Channel) and an aiortc     *)
(* RTCPeerConnection.  The state is the two dictionaries the Handler owns  *)
(* (_transceivers, _dataChannels), the engine objects they refer to, the   *)
(* pending event-handler tasks, and the buffered-amount poller task.       *)
(*                                                                         *)
(* Every handler is run by one asyncio loop: a step of the model is what   *)
(* a task executes between two suspension points (await).                  *)
(***************************************************************************)
EXTENDS Integers, Sequences, FiniteSets, TLC

(***************************************************************************)
(* Bounds of the model.                                                    *)
(***************************************************************************)
MaxTransceivers == 2
MaxHandles == 2
MaxPending == 2
MaxCloseCalls == 2

(***************************************************************************)
(* Values.                                                                 *)
(***************************************************************************)
\* Python's None: a field the request does not supply, an unset attribute.
NoneVal == "None"

TrackIds == {"t1", "t2"}
DcIds == {"d1", "d2"}
MidNames == <<"0", "1", "2", "3">>
Mids == {MidNames[i] : i \in 1..(MaxTransceivers + 1)}

\* The exceptions the handlers raise, by the spec's error taxonomy.
BadRequest == "TypeError: missing"
UnsupportedOperation == "TypeError: unknown"
NotFound == "KeyError"
AttributeError == "AttributeError"
RuntimeError == "RuntimeError"
EngineError == "EngineError"
Ok == "ok"

RequestMethods ==
    { "handler.getLocalDescription", "handler.addTrack", "handler.removeTrack",
      "handler.setLocalDescription", "handler.setRemoteDescription",
      "handler.createOffer", "handler.createAnswer", "handler.getMid",
      "handler.getTransportStats", "handler.getSenderStats",
      "handler.getReceiverStats", "handler.createDataChannel" }

NotificationEvents ==
    { "enableTrack", "disableTrack", "datachannel.send",
      "datachannel.sendBinary", "datachannel.close",
      "datachannel.setBufferedAmountLowThreshold" }

\* Names the orchestrator may send that no branch handles.
BogusMethods == {"handler.bogus"}
BogusEvents == {"datachannel.bogus"}

VARIABLES
    transceivers,      \* self._transceivers: track id -> index in pcTransceivers,
                       \* 0 when the id is not a key
    pcTransceivers,    \* self._pc.getTransceivers(): the engine's transceivers
    dataChannels,      \* self._dataChannels: the dict's entries, in insertion order
    handles,           \* the RTCDataChannel objects createDataChannel returned
    tasks,             \* event-handler tasks the loop has scheduled, oldest first:
                       \* the channel object, the event, and whether the object
                       \* was registered when the event was raised
    pollerPc,          \* where checkDataChannelsBufferedAmount is suspended
    pollerIt,          \* the dict iterator of the poller's for loop
    emitted,           \* ids the poller notified in its current interval
    mutated,           \* the dict was written while the poller iterated
    pcCloseCalls,      \* calls of self._pc.close()
    limits,            \* how much of the engine this run may create
    last               \* the step just taken: operation, argument, outcome

vars == << transceivers, pcTransceivers, dataChannels, handles, tasks,
           pollerPc, pollerIt, emitted, mutated, pcCloseCalls, limits, last >>

trackVars == << transceivers, pcTransceivers >>
dcVars == << dataChannels, handles >>
pollerVars == << pollerPc, pollerIt, emitted, mutated >>

(***************************************************************************)
(* The record of a step.  calls: the engine operations the step invoked;   *)
(* notes: the notifications it handed to self._channel.notify; h: the      *)
(* data-channel object it acted on or ran a handler of (0: none).          *)
(***************************************************************************)
HandleStep(op, arg, h, res, calls, notes) ==
    [op |-> op, arg |-> arg, h |-> h, res |-> res, calls |-> calls,
     notes |-> notes]

\* A step that is about no data-channel object.
Step(op, arg, res, calls, notes) == HandleStep(op, arg, 0, res, calls, notes)

\* self._channel.notify(targetId, event, ...)
Notify(targetId, event) == << targetId, event >>

(***************************************************************************)
(* Python dict, as CPython lays it out: an array of entries in insertion   *)
(* order; del leaves a dead entry in place; a store under a present key    *)
(* overwrites the value where it is; a store under a new key appends.      *)
(* (The array is compacted only by a resize, which a dict of fewer than    *)
(* six insertions never has.)                                              *)
(***************************************************************************)
DeadEntry == [key |-> NoneVal, h |-> 0, live |-> FALSE]

DictLive(d) == {i \in 1..Len(d) : d[i].live}
DictKeys(d) == {d[i].key : i \in DictLive(d)}
DictLen(d) == Cardinality(DictLive(d))
DictIndex(d, k) == CHOOSE i \in DictLive(d) : d[i].key = k
DictGet(d, k) == d[DictIndex(d, k)].h
DictSet(d, k, h) ==
    IF k \in DictKeys(d)
    THEN [d EXCEPT ![DictIndex(d, k)].h = h]
    ELSE Append(d, [key |-> k, h |-> h, live |-> TRUE])
DictDel(d, k) == [d EXCEPT ![DictIndex(d, k)] = DeadEntry]

\* The live keys in iteration order.
RECURSIVE DictOrder(_)
DictOrder(d) ==
    IF d = << >> THEN << >>
    ELSE IF d[1].live THEN << d[1].key >> \o DictOrder(Tail(d))
    ELSE DictOrder(Tail(d))

\* No step is being reported.
Idle == Step("idle", NoneVal, Ok, {}, << >>)

(***************************************************************************)
(* The transceiver side and the data-channel side of the Handler share no  *)
(* state, so a run explores one of them in depth and the other little:     *)
(* `limits` is how many transceivers, data channels and scheduled handler  *)
(* tasks the run may hold, and which dataChannelId values its              *)
(* createDataChannel requests carry (None: none).  The runs are: tracks    *)
(* only; one track and one channel, with the handler tasks queueing up;    *)
(* channels only.                                                          *)
(***************************************************************************)
Limits ==
    { [transceivers |-> MaxTransceivers, handles |-> 0, pending |-> 0,
       ids |-> DcIds \cup {NoneVal}],
      [transceivers |-> 1, handles |-> 1, pending |-> MaxPending,
       ids |-> DcIds \cup {NoneVal}],
      [transceivers |-> 0, handles |-> MaxHandles, pending |-> 1,
       ids |-> DcIds] }

(***************************************************************************)
(* Init: the state __init__ leaves.                                        *)
(***************************************************************************)
NoIt == [used |-> 0, pos |-> 1, len |-> 0]

Init ==
    /\ transceivers = [t \in TrackIds |-> 0]
    /\ pcTransceivers = << >>
    /\ dataChannels = << >>
    /\ handles = << >>
    /\ tasks = << >>
    /\ pollerPc = "sleep"
    /\ pollerIt = NoIt
    /\ emitted = << >>
    /\ mutated = FALSE
    /\ pcCloseCalls = 0
    /\ limits \in Limits
    /\ last = Idle

\* A step that fails or only reads: nothing but `last` changes.
Only(step) ==
    /\ last' = step
    /\ UNCHANGED << trackVars, dcVars, tasks, pollerVars, pcCloseCalls, limits >>

(***************************************************************************)
(* processRequest: the transceiver and negotiation branches.               *)
(***************************************************************************)
HasTrack(trackId) == trackId \in TrackIds /\ transceivers[trackId] # 0

\* self._pc.addTransceiver(track)
NewTransceiver(track) ==
    [track |-> track, direction |-> "sendrecv", senderTrack |-> track,
     mid |-> NoneVal]

\* handler.getLocalDescription
getLocalDescription ==
    Only(Step("handler.getLocalDescription", NoneVal, Ok, {}, << >>))

\* handler.addTrack; `track` is what self._getTrack(playerId, kind) resolves.
addTrack(track) ==
    /\ Len(pcTransceivers) < limits.transceivers
    /\ pcTransceivers' = Append(pcTransceivers, NewTransceiver(track))
    /\ transceivers' = [transceivers EXCEPT ![track] = Len(pcTransceivers) + 1]
    /\ last' = Step("handler.addTrack", track, Ok, {"addTransceiver"}, << >>)
    /\ UNCHANGED << dcVars, tasks, pollerVars, pcCloseCalls, limits >>

\* handler.removeTrack, once the transceiver is looked up, with the del
\* ahead of the engine calls (a faulty variant of removeRegistered).
removeRegistered_deletesFirst(trackId, engineOk) ==
    /\ transceivers' = [transceivers EXCEPT ![trackId] = 0]
    /\ pcTransceivers' =
           [pcTransceivers EXCEPT
               ![transceivers[trackId]].direction = "inactive",
               ![transceivers[trackId]].senderTrack =
                   IF engineOk THEN NoneVal ELSE @]
    /\ last' = Step("handler.removeTrack", trackId,
                    IF engineOk THEN Ok ELSE EngineError, {"replaceTrack"},
                    << >>)
    /\ UNCHANGED << dcVars, tasks, pollerVars, pcCloseCalls, limits >>

\* handler.removeTrack, once the transceiver is looked up: direction,
\* sender.replaceTrack(None), del.  engineOk: replaceTrack returns; when it
\* raises, the direction is set and the del is not reached.
removeRegistered(trackId, engineOk) ==
    IF ~engineOk
    THEN /\ pcTransceivers' =
                [pcTransceivers EXCEPT
                    ![transceivers[trackId]].direction = "inactive"]
         /\ last' = Step("handler.removeTrack", trackId, EngineError,
                         {"replaceTrack"}, << >>)
         /\ UNCHANGED << transceivers, dcVars, tasks, pollerVars, pcCloseCalls,
                         limits >>
    ELSE /\ pcTransceivers' =
                [pcTransceivers EXCEPT
                    ![transceivers[trackId]].direction = "inactive",
                    ![transceivers[trackId]].senderTrack = NoneVal]
         /\ transceivers' = [transceivers EXCEPT ![trackId] = 0]
         /\ last' = Step("handler.removeTrack", trackId, Ok, {"replaceTrack"},
                         << >>)
         /\ UNCHANGED << dcVars, tasks, pollerVars, pcCloseCalls, limits >>

\* Faulty variant of removeTrack: an absent trackId is skipped in silence
\* (self._transceivers.get).
removeTrack_silent(trackId, engineOk) ==
    IF trackId = NoneVal
    THEN Only(Step("handler.removeTrack", trackId, BadRequest, {}, << >>))
    ELSE IF ~HasTrack(trackId)
    THEN Only(Step("handler.removeTrack", trackId, Ok, {}, << >>))
    ELSE removeRegistered(trackId, engineOk)

\* handler.removeTrack
removeTrack(trackId, engineOk) ==
    IF trackId = NoneVal
    THEN Only(Step("handler.removeTrack", trackId, BadRequest, {}, << >>))
    ELSE IF ~HasTrack(trackId)
    THEN Only(Step("handler.removeTrack", trackId, NotFound, {}, << >>))
    ELSE removeRegistered(trackId, engineOk)

\* What a successful offer/answer exchange does to the engine's
\* transceivers: each one that has no mid yet gets one.
Negotiated(ts) ==
    [i \in DOMAIN ts |->
        IF ts[i].mid = NoneVal THEN [ts[i] EXCEPT !.mid = MidNames[i]]
        ELSE ts[i]]

\* handler.setLocalDescription, handler.setRemoteDescription
setDescription(method, engineOk) ==
    IF ~engineOk
    THEN Only(Step(method, NoneVal, EngineError, {method}, << >>))
    ELSE /\ pcTransceivers' = Negotiated(pcTransceivers)
         /\ last' = Step(method, NoneVal, Ok, {method}, << >>)
         /\ UNCHANGED << transceivers, dcVars, tasks, pollerVars, pcCloseCalls, limits >>

\* Faulty variant of createDescription: a new offer or answer empties
\* self._transceivers.
createDescription_forgets(method, engineOk) ==
    /\ transceivers' = [t \in TrackIds |-> 0]
    /\ last' = Step(method, NoneVal, IF engineOk THEN Ok ELSE EngineError,
                    {method}, << >>)
    /\ UNCHANGED << pcTransceivers, dcVars, tasks, pollerVars, pcCloseCalls,
                    limits >>

\* handler.createOffer, handler.createAnswer
createDescription(method, engineOk) ==
    Only(Step(method, NoneVal, IF engineOk THEN Ok ELSE EngineError,
              {method}, << >>))

\* handler.getMid
getMid(trackId) ==
    IF trackId = NoneVal
    THEN Only(Step("handler.getMid", trackId, BadRequest, {}, << >>))
    ELSE IF ~HasTrack(trackId)
    THEN Only(Step("handler.getMid", trackId, NotFound, {}, << >>))
    ELSE Only(Step("handler.getMid", trackId, Ok, {}, << >>))

\* handler.getTransportStats
getTransportStats ==
    Only(Step("handler.getTransportStats", NoneVal, Ok, {"getStats"}, << >>))

\* _getTransceiverByMid: the first transceiver of the engine's list whose
\* mid is `mid`, or 0 for Python's None.
getTransceiverByMid(mid) ==
    LET hits == {i \in DOMAIN pcTransceivers : pcTransceivers[i].mid = mid}
    IN  IF hits = {} THEN 0 ELSE CHOOSE i \in hits : \A j \in hits : i <= j

\* handler.getSenderStats, handler.getReceiverStats
getStats(method, mid) ==
    IF mid = NoneVal
    THEN Only(Step(method, mid, BadRequest, {}, << >>))
    ELSE IF getTransceiverByMid(mid) = 0
    THEN \* transceiver is None: transceiver.sender raises
         Only(Step(method, mid, AttributeError, {}, << >>))
    ELSE Only(Step(method, mid, Ok, {"getStats"}, << >>))

\* Faulty variant of unknownRequest: an unknown method falls through and
\* the request succeeds.
unknownRequest_silent(method) ==
    Only(Step(method, NoneVal, Ok, {}, << >>))

\* the else branch of processRequest
unknownRequest(method) ==
    Only(Step(method, NoneVal, UnsupportedOperation, {}, << >>))

(***************************************************************************)
(* Data channels.  A handle is one RTCDataChannel object; `key` is the     *)
(* dataChannelId its event handlers closed over when it was created.       *)
(***************************************************************************)
HasChannel(dataChannelId) == dataChannelId \in DictKeys(dataChannels)

\* self._pc.createDataChannel(negotiated=True, ...)
NewHandle(dataChannelId) ==
    [key |-> dataChannelId, readyState |-> "connecting",
     closeCalled |-> FALSE, closeSent |-> FALSE]

\* A write of self._dataChannels that the poller's iterator may notice.
Written == mutated \/ pollerPc = "iter"

\* handler.createDataChannel; dataChannelId is internal.get("dataChannelId"),
\* None when the request has none.
createDataChannel(dataChannelId, engineOk) ==
    /\ Len(handles) < limits.handles
    /\ IF ~engineOk
       THEN Only(Step("handler.createDataChannel", dataChannelId, EngineError,
                      {"createDataChannel"}, << >>))
       ELSE /\ handles' = Append(handles, NewHandle(dataChannelId))
            /\ dataChannels' =
                   DictSet(dataChannels, dataChannelId, Len(handles) + 1)
            /\ mutated' = Written
            /\ last' = HandleStep("handler.createDataChannel", dataChannelId,
                                  Len(handles) + 1, Ok,
                                  {"createDataChannel"}, << >>)
            /\ UNCHANGED << trackVars, tasks, pollerPc, pollerIt, emitted,
                            pcCloseCalls, limits >>

(***************************************************************************)
(* processNotification                                                     *)
(***************************************************************************)
\* enableTrack, disableTrack: a warning is logged.
notImplemented(event) == Only(Step(event, NoneVal, Ok, {}, << >>))

\* datachannel.send, datachannel.sendBinary, once the channel is looked up;
\* engineOk: dataChannel.send accepts the frame.
sendRegistered(event, dataChannelId, engineOk) ==
    IF ~engineOk
    THEN Only(HandleStep(event, dataChannelId,
                         DictGet(dataChannels, dataChannelId), EngineError,
                         {"send"}, << >>))
    ELSE Only(HandleStep(event, dataChannelId,
                         DictGet(dataChannels, dataChannelId), Ok, {"send"},
                         << Notify(dataChannelId, "bufferedamount") >>))

\* Faulty variant of send: a send to an unregistered id still reports a
\* buffered amount.
send_reports(event, dataChannelId, engineOk) ==
    IF dataChannelId = NoneVal
    THEN Only(Step(event, dataChannelId, BadRequest, {}, << >>))
    ELSE IF ~HasChannel(dataChannelId)
    THEN Only(Step(event, dataChannelId, Ok, {},
                   << Notify(dataChannelId, "bufferedamount") >>))
    ELSE sendRegistered(event, dataChannelId, engineOk)

\* datachannel.send, datachannel.sendBinary
send(event, dataChannelId, engineOk) ==
    IF dataChannelId = NoneVal
    THEN Only(Step(event, dataChannelId, BadRequest, {}, << >>))
    ELSE IF ~HasChannel(dataChannelId)
    THEN Only(Step(event, dataChannelId, NotFound, {}, << >>))
    ELSE sendRegistered(event, dataChannelId, engineOk)

\* RTCDataChannel.close(): a channel that is connecting or open starts
\* closing, and its "closing" event is raised.
HandleClosed(hs, h) ==
    [hs EXCEPT ![h].closeCalled = TRUE,
               ![h].readyState =
                   IF @ \in {"connecting", "open"} THEN "closing" ELSE @]

RaisesClosing(h) == handles[h].readyState \in {"connecting", "open"}

\* datachannel.close, once the channel is looked up: del, then
\* dataChannel.close().
closeRegistered(dataChannelId) ==
    LET h == DictGet(dataChannels, dataChannelId) IN
    /\ RaisesClosing(h) => Len(tasks) < limits.pending
    /\ dataChannels' = DictDel(dataChannels, dataChannelId)
    /\ handles' = HandleClosed(handles, h)
    /\ tasks' = IF RaisesClosing(h)
                THEN Append(tasks, [h |-> h, ev |-> "closing", reg |-> FALSE])
                ELSE tasks
    /\ mutated' = Written
    /\ last' = HandleStep("datachannel.close", dataChannelId, h, Ok,
                          {"close"}, << >>)
    /\ UNCHANGED << trackVars, pollerPc, pollerIt, emitted, pcCloseCalls,
                    limits >>

\* Faulty variant of closeDataChannel: the channel is looked up with
\* self._dataChannels[dataChannelId], as the other notifications do.
closeDataChannel_subscript(dataChannelId) ==
    IF dataChannelId = NoneVal
    THEN Only(Step("datachannel.close", dataChannelId, BadRequest, {}, << >>))
    ELSE IF ~HasChannel(dataChannelId)
    THEN Only(Step("datachannel.close", dataChannelId, NotFound, {}, << >>))
    ELSE closeRegistered(dataChannelId)

\* datachannel.close
closeDataChannel(dataChannelId) ==
    IF dataChannelId = NoneVal
    THEN Only(Step("datachannel.close", dataChannelId, BadRequest, {}, << >>))
    ELSE IF ~HasChannel(dataChannelId)
    THEN Only(Step("datachannel.close", dataChannelId, Ok, {}, << >>))
    ELSE closeRegistered(dataChannelId)

\* datachannel.setBufferedAmountLowThreshold: the value is written to the
\* engine's channel object (the call "setThreshold").
setBufferedAmountLowThreshold(dataChannelId) ==
    IF dataChannelId = NoneVal
    THEN Only(Step("datachannel.setBufferedAmountLowThreshold", dataChannelId,
                   BadRequest, {}, << >>))
    ELSE IF ~HasChannel(dataChannelId)
    THEN Only(Step("datachannel.setBufferedAmountLowThreshold", dataChannelId,
                   NotFound, {}, << >>))
    ELSE Only(HandleStep("datachannel.setBufferedAmountLowThreshold",
                         dataChannelId, DictGet(dataChannels, dataChannelId),
                         Ok, {"setThreshold"}, << >>))

\* the else branch of processNotification
unknownNotification(event) ==
    Only(Step(event, NoneVal, UnsupportedOperation, {}, << >>))

(***************************************************************************)
(* The engine raises a data-channel event: the RTCDataChannel moves along  *)
(* connecting -> open -> closing -> closed and the event emitter schedules *)
(* the async handler registered for the event as a task of the loop.       *)
(***************************************************************************)
EngineEvents ==
    {"open", "closing", "close", "message", "binary", "bufferedamountlow"}

EngineMay(h, ev) ==
    CASE ev = "open" -> handles[h].readyState = "connecting"
      [] ev = "closing" -> handles[h].readyState \in {"connecting", "open"}
      [] ev = "close" -> handles[h].readyState # "closed"
      [] OTHER -> handles[h].readyState = "open"

EngineState(h, ev) ==
    CASE ev = "open" -> "open"
      [] ev = "closing" -> "closing"
      [] ev = "close" -> "closed"
      [] OTHER -> handles[h].readyState

\* The channel object is the value of an entry of self._dataChannels, under
\* the id it was created with.
Registered(h) ==
    /\ HasChannel(handles[h].key)
    /\ DictGet(dataChannels, handles[h].key) = h

\* A scheduled task remembers (reg) whether the channel was registered when
\* the event was raised.
EngineEvent(h, ev) ==
    /\ Len(tasks) < limits.pending
    /\ EngineMay(h, ev)
    /\ handles' = [handles EXCEPT ![h].readyState = EngineState(h, ev)]
    /\ tasks' = Append(tasks, [h |-> h, ev |-> ev, reg |-> Registered(h)])
    /\ last' = Step("engine", NoneVal, Ok, {}, << >>)
    /\ UNCHANGED << trackVars, dataChannels, pollerVars, pcCloseCalls, limits >>

(***************************************************************************)
(* The handlers createDataChannel registers on the channel it created;     *)
(* dataChannelId is the id of that request.                                *)
(***************************************************************************)
\* The handler of an engine event; "message" is a message event that
\* carries a str and "binary" one that carries bytes.
HandlerOf(ev) == IF ev \in {"message", "binary"} THEN "on_message"
                 ELSE "on_" \o ev

\* on_open, on_closing, on_message (str: `message`, bytes: `binary`),
\* on_bufferedamountlow: one notify each.
on_event(h, ev) ==
    /\ last' = HandleStep(HandlerOf(ev), handles[h].key, h, Ok, {},
                          << Notify(handles[h].key, ev) >>)
    /\ UNCHANGED << trackVars, dcVars, pollerVars, pcCloseCalls, limits >>

\* on_close
on_close(h) ==
    LET dataChannelId == handles[h].key IN
    IF HasChannel(dataChannelId)
    THEN /\ dataChannels' = DictDel(dataChannels, dataChannelId)
         /\ handles' = [handles EXCEPT ![h].closeSent = TRUE]
         /\ mutated' = Written
         /\ last' = HandleStep("on_close", dataChannelId, h, Ok, {},
                               << Notify(dataChannelId, "close") >>)
         /\ UNCHANGED << trackVars, pollerPc, pollerIt, emitted, pcCloseCalls, limits >>
    ELSE \* except KeyError: pass
         /\ last' = HandleStep("on_close", dataChannelId, h, Ok, {}, << >>)
         /\ UNCHANGED << trackVars, dcVars, pollerVars, pcCloseCalls, limits >>

\* Faulty variant of RunTask: the loop runs the newest scheduled task first.
RunTask_newestFirst ==
    /\ tasks # << >>
    /\ tasks' = SubSeq(tasks, 1, Len(tasks) - 1)
    /\ IF tasks[Len(tasks)].ev = "close"
       THEN on_close(tasks[Len(tasks)].h)
       ELSE on_event(tasks[Len(tasks)].h, tasks[Len(tasks)].ev)

\* The loop runs the oldest scheduled handler task up to its await.
RunTask ==
    /\ tasks # << >>
    /\ tasks' = Tail(tasks)
    /\ IF Head(tasks).ev = "close"
       THEN on_close(Head(tasks).h)
       ELSE on_event(Head(tasks).h, Head(tasks).ev)

(***************************************************************************)
(* checkDataChannelsBufferedAmount: after each sleep, a for loop over      *)
(* self._dataChannels.items() that awaits a notify per item.  The loop's   *)
(* dict iterator remembers the dict's size (used), the next entry to look  *)
(* at (pos) and how many items it still expects (len).                     *)
(***************************************************************************)
\* Faulty variant of NewIt: the iterator starts past the first entry.
NewIt_skipsFirst(d) == [used |-> DictLen(d), pos |-> 2, len |-> DictLen(d)]

\* iter(self._dataChannels.items())
NewIt(d) == [used |-> DictLen(d), pos |-> 1, len |-> DictLen(d)]

\* The entry next(iterator) stops at, 0 when none is left.
ItNext(it, d) ==
    LET rest == {i \in DictLive(d) : i >= it.pos}
    IN  IF rest = {} THEN 0 ELSE CHOOSE i \in rest : \A j \in rest : i <= j

\* next(iterator): "error" (RuntimeError), "stop" (StopIteration) or "item".
\* An item found when none is expected any more is an error from
\* CPython 3.8 on and an item before (lenChecked tells which).
ItOutcome(it, d, lenChecked) ==
    IF it.used # DictLen(d) THEN "error"
    ELSE IF ItNext(it, d) = 0 THEN "stop"
    ELSE IF it.len = 0 /\ lenChecked THEN "error"
    ELSE "item"

ItAdvance(it, d) ==
    [used |-> it.used, pos |-> ItNext(it, d) + 1,
     len |-> IF it.len > 0 THEN it.len - 1 ELSE 0]

\* One turn of the for loop, from next(iterator) to the await of notify.
PollerTurn(it, sofar, lenChecked) ==
    LET outcome == ItOutcome(it, dataChannels, lenChecked)
        entry == dataChannels[ItNext(it, dataChannels)]
    IN  /\ UNCHANGED << trackVars, dcVars, tasks, pcCloseCalls, limits >>
        /\ CASE outcome = "error" ->
                  /\ pollerPc' = "crashed"
                  /\ pollerIt' = NoIt
                  /\ emitted' = << >>
                  /\ mutated' = FALSE
                  /\ last' = Step("poller", NoneVal, RuntimeError, {}, << >>)
             [] outcome = "stop" ->
                  /\ pollerPc' = "sleep"
                  /\ pollerIt' = NoIt
                  /\ emitted' = << >>
                  /\ mutated' = FALSE
                  /\ last' = Step("poller", NoneVal, Ok, {}, << >>)
             [] outcome = "item" ->
                  /\ pollerPc' = "iter"
                  /\ pollerIt' = ItAdvance(it, dataChannels)
                  /\ emitted' = Append(sofar, entry.key)
                  /\ mutated' = mutated
                  /\ last' = HandleStep("poller", entry.key, entry.h, Ok, {},
                                        << Notify(entry.key, "bufferedamount") >>)

\* asyncio.sleep(1) returns: the for loop starts.
PollerWake ==
    /\ pollerPc = "sleep"
    /\ PollerTurn(NewIt(dataChannels), << >>, TRUE)

\* The awaited notify returns: the for loop goes on.
PollerResume ==
    /\ pollerPc = "iter"
    /\ \E lenChecked \in BOOLEAN : PollerTurn(pollerIt, emitted, lenChecked)

(***************************************************************************)
(* close(): cancel the poller task, then self._pc.close().  Nothing keeps  *)
(* close from being called again, or a request from arriving after it.     *)
(* The step records where the poller was when it was cancelled.            *)
(***************************************************************************)
\* Faulty variant of Close: the poller task is not cancelled.
Close_keepsPoller ==
    /\ pcCloseCalls < MaxCloseCalls
    /\ pcCloseCalls' = pcCloseCalls + 1
    /\ last' = Step("close", pollerPc, Ok, {"pc.close"}, << >>)
    /\ UNCHANGED << trackVars, dcVars, tasks, pollerVars, limits >>

Close ==
    /\ pcCloseCalls < MaxCloseCalls
    /\ pollerPc' = IF pollerPc \in {"sleep", "iter"} THEN "cancelled"
                   ELSE pollerPc
    /\ pollerIt' = NoIt
    /\ emitted' = << >>
    /\ mutated' = FALSE
    /\ pcCloseCalls' = pcCloseCalls + 1
    /\ last' = Step("close", pollerPc, Ok, {"pc.close"}, << >>)
    /\ UNCHANGED << trackVars, dcVars, tasks, limits >>

(***************************************************************************)
(* The dispatchers: the if/elif chains of processRequest and               *)
(* processNotification.                                                    *)
(***************************************************************************)
processRequest(method, arg, engineOk) ==
    IF method = "handler.getLocalDescription" THEN getLocalDescription
    ELSE IF method = "handler.addTrack" THEN addTrack(arg)
    ELSE IF method = "handler.removeTrack" THEN removeTrack(arg, engineOk)
    ELSE IF method = "handler.setLocalDescription"
    THEN setDescription(method, engineOk)
    ELSE IF method = "handler.setRemoteDescription"
    THEN setDescription(method, engineOk)
    ELSE IF method = "handler.createOffer"
    THEN createDescription(method, engineOk)
    ELSE IF method = "handler.createAnswer"
    THEN createDescription(method, engineOk)
    ELSE IF method = "handler.getMid" THEN getMid(arg)
    ELSE IF method = "handler.getTransportStats" THEN getTransportStats
    ELSE IF method = "handler.getSenderStats" THEN getStats(method, arg)
    ELSE IF method = "handler.getReceiverStats" THEN getStats(method, arg)
    ELSE IF method = "handler.createDataChannel"
    THEN createDataChannel(arg, engineOk)
    ELSE unknownRequest(method)

processNotification(event, arg, engineOk) ==
    IF event = "enableTrack" THEN notImplemented(event)
    ELSE IF event = "disableTrack" THEN notImplemented(event)
    ELSE IF event = "datachannel.send" THEN send(event, arg, engineOk)
    ELSE IF event = "datachannel.sendBinary" THEN send(event, arg, engineOk)
    ELSE IF event = "datachannel.close" THEN closeDataChannel(arg)
    ELSE IF event = "datachannel.setBufferedAmountLowThreshold"
    THEN setBufferedAmountLowThreshold(arg)
    ELSE unknownNotification(event)

(***************************************************************************)
(* What the orchestrator may send.                                         *)
(***************************************************************************)
\* The identifier a request carries (None: the field is missing).
RequestArgs(method) ==
    IF method = "handler.addTrack" THEN TrackIds
    ELSE IF method \in {"handler.removeTrack", "handler.getMid"}
    THEN TrackIds \cup {NoneVal}
    ELSE IF method \in {"handler.getSenderStats", "handler.getReceiverStats"}
    THEN Mids \cup {NoneVal}
    ELSE IF method = "handler.createDataChannel" THEN limits.ids
    ELSE {NoneVal}

\* Whether the engine call of the branch can fail.
RequestEngine(method) ==
    IF method \in {"handler.removeTrack", "handler.setLocalDescription",
                   "handler.setRemoteDescription", "handler.createOffer",
                   "handler.createAnswer", "handler.createDataChannel"}
    THEN BOOLEAN ELSE {TRUE}

NotificationArgs(event) ==
    IF event \in {"datachannel.send", "datachannel.sendBinary",
                  "datachannel.close",
                  "datachannel.setBufferedAmountLowThreshold"}
    THEN DcIds \cup {NoneVal}
    ELSE {NoneVal}

NotificationEngine(event) ==
    IF event \in {"datachannel.send", "datachannel.sendBinary"}
    THEN BOOLEAN ELSE {TRUE}

Request ==
    \E method \in RequestMethods \cup BogusMethods :
        \E arg \in RequestArgs(method), engineOk \in RequestEngine(method) :
            processRequest(method, arg, engineOk)

Notification ==
    \E event \in NotificationEvents \cup BogusEvents :
        \E arg \in NotificationArgs(event),
           engineOk \in NotificationEngine(event) :
            processNotification(event, arg, engineOk)

Engine ==
    \E h \in DOMAIN handles, ev \in EngineEvents : EngineEvent(h, ev)

\* The outcome of the step just taken has been delivered (the reply sent,
\* the error logged): the record of the step is dropped.  It is the only
\* thing this does, so the steps of the tasks interleave as they please.
Return ==
    /\ last # Idle
    /\ last' = Idle
    /\ UNCHANGED << trackVars, dcVars, tasks, pollerVars, pcCloseCalls, limits >>

Next ==
    \/ last = Idle /\ Request
    \/ last = Idle /\ Notification
    \/ last = Idle /\ Engine
    \/ last = Idle /\ RunTask
    \/ last = Idle /\ PollerWake
    \/ last = Idle /\ PollerResume
    \/ last = Idle /\ Close
    \/ Return

Spec == Init /\ [][Next]_vars

(***************************************************************************)
(* Scheduling.  The loop runs every task that is ready: a sleep that has   *)
(* expired and a notify that has returned resume the poller however many   *)
(* other tasks are ready too, and a step that was started is completed.    *)
(***************************************************************************)
Fairness ==
    /\ WF_vars(Return)
    /\ SF_vars(last = Idle /\ PollerWake)
    /\ SF_vars(last = Idle /\ PollerResume)

LiveSpec == Init /\ [][Next]_vars /\ Fairness

(***************************************************************************)
(* Properties.  `last'` names the step a transition takes; the unprimed    *)
(* variables are the state the step found.                                 *)
(***************************************************************************)
registries == << transceivers, dataChannels >>
engineVars == << pcTransceivers, handles, tasks, pcCloseCalls >>

\* The step calls no engine operation and sends no notification.
Silent(step) == step.calls = {} /\ step.notes = << >>

\* C1: once datachannel.close has closed a channel, the engine's close event
\* of that channel (on_close) does not raise, leaves self._dataChannels as
\* it is and sends no `close` notification; and no channel's on_close sends
\* a second `close` notification.
C1_CloseEventAfterExplicitClose ==
    [][\A h \in DOMAIN handles :
          (last'.op = "on_close" /\ last'.h = h) =>
              /\ handles[h].closeCalled =>
                    /\ last'.res = Ok
                    /\ dataChannels' = dataChannels
                    /\ last'.notes = << >>
              /\ last'.notes # << >> => ~handles[h].closeSent]_vars

\* C2: datachannel.close(d) for a d that is not a key of self._dataChannels
\* raises nothing, changes neither registry nor any engine object, calls no
\* engine operation and sends no notification; and after any
\* datachannel.close(d), d is not a key, so that a second close in a row
\* finds it absent and changes nothing.
C2_CloseAbsentIsNoOp ==
    [][\A d \in DcIds :
          (last'.op = "datachannel.close" /\ last'.arg = d) =>
              /\ ~HasChannel(d) =>
                    /\ last'.res = Ok
                    /\ Silent(last')
                    /\ UNCHANGED << registries, engineVars, pollerVars >>
              /\ ~HasChannel(d)']_vars

\* A duplicate datachannel.close: the id's channel was closed before and
\* the id is no key any more.
C2_Witness ==
    /\ last.op = "datachannel.close"
    /\ last.res = Ok
    /\ last.calls = {}
    /\ \E h \in DOMAIN handles :
          handles[h].key = last.arg /\ handles[h].closeCalled

\* C3: the poller task does not end with an error when the registry is
\* written while it awaits a notify, and every `bufferedamount` it sends is
\* for a channel that is registered under that id when it is sent.
C3_PollerToleratesMutation ==
    [][last'.op = "poller" =>
          /\ last'.res # RuntimeError
          /\ pollerPc' # "crashed"
          /\ last'.notes # << >> =>
                /\ HasChannel(last'.arg)
                /\ DictGet(dataChannels, last'.arg) = last'.h]_vars

\* The notifications of the interval the poller is in, or of the one it
\* starts and ends in one step (an empty registry).
SoFar == IF pollerPc = "iter" THEN emitted ELSE << >>

\* C4: when the poller ends an interval during which self._dataChannels was
\* not written, it has sent as many `bufferedamount` notifications as there
\* are registered ids, exactly one for each registered id and none for any
\* other id.
C4_PollerReportsEachOnce ==
    [][(last'.op = "poller" /\ pollerPc' = "sleep"
            /\ ~(pollerPc = "iter" /\ mutated)) =>
          /\ Len(SoFar) = DictLen(dataChannels)
          /\ \A k \in DictKeys(dataChannels) :
                Cardinality({i \in 1..Len(SoFar) : SoFar[i] = k}) = 1
          /\ \A i \in 1..Len(SoFar) : SoFar[i] \in DictKeys(dataChannels)
          /\ last'.notes = << >>]_vars

\* Two channels are registered, nothing was written during the interval and
\* the poller has notified both: its next step ends the interval.
C4_Witness ==
    /\ pollerPc = "iter"
    /\ ~mutated
    /\ DictLen(dataChannels) = 2
    /\ Len(emitted) = 2
    /\ ItNext(pollerIt, dataChannels) = 0
    /\ last = Idle

\* C5: while d stays a key of self._dataChannels, its entry refers to the
\* same channel object, whatever requests arrive.
C5_EntryKeepsItsHandle ==
    [][\A d \in DcIds :
          (HasChannel(d) /\ HasChannel(d)') =>
              DictGet(dataChannels, d)' = DictGet(dataChannels, d)]_vars

\* C6: removeTrack and getMid of a trackId that is no key of
\* self._transceivers fail with KeyError and change neither registry nor any
\* engine transceiver.
C6_UnknownTrackNotFound ==
    [][\A t \in TrackIds :
          (last'.op \in {"handler.removeTrack", "handler.getMid"}
             /\ last'.arg = t /\ ~HasTrack(t)) =>
              /\ last'.res = NotFound
              /\ Silent(last')
              /\ UNCHANGED << registries, pcTransceivers >>]_vars

\* removeTrack of a track that an earlier removeTrack removed.
C6_Witness ==
    /\ last.op = "handler.removeTrack"
    /\ last.res = NotFound
    /\ \E i \in DOMAIN pcTransceivers :
          /\ pcTransceivers[i].track = last.arg
          /\ pcTransceivers[i].direction = "inactive"

\* C7: send, sendBinary and setBufferedAmountLowThreshold for a
\* dataChannelId that is no key of self._dataChannels fail with KeyError:
\* no engine operation is called (no frame sent, no threshold set), no
\* notification is sent and nothing changes.
C7_UnknownChannelNotFound ==
    [][\A d \in DcIds :
          (last'.op \in {"datachannel.send", "datachannel.sendBinary",
                         "datachannel.setBufferedAmountLowThreshold"}
             /\ last'.arg = d /\ ~HasChannel(d)) =>
              /\ last'.res = NotFound
              /\ Silent(last')
              /\ UNCHANGED << registries, engineVars >>]_vars

\* A send to an id whose channel the engine closed (on_close removed it).
C7_Witness ==
    /\ last.op = "datachannel.send"
    /\ last.res = NotFound
    /\ \E h \in DOMAIN handles :
          handles[h].key = last.arg /\ handles[h].closeSent

\* C8: a request whose method, or a notification whose event, is none of
\* the handled names fails with the "unknown" TypeError, calls no engine
\* operation, sends no notification and changes nothing.
C8_UnknownNameUnsupported ==
    [][last'.op \in (BogusMethods \cup BogusEvents)
                        \ (RequestMethods \cup NotificationEvents) =>
          /\ last'.res = UnsupportedOperation
          /\ Silent(last')
          /\ UNCHANGED << registries, engineVars, pollerVars >>]_vars

\* An unknown request method arrives while a channel is registered.
C8_Witness ==
    /\ last.op \in BogusMethods
    /\ last.res = UnsupportedOperation
    /\ DictLen(dataChannels) > 0

\* The operations that need an identifier.
NeedsId ==
    { "handler.removeTrack", "handler.getMid", "handler.getSenderStats",
      "handler.getReceiverStats", "handler.createDataChannel",
      "datachannel.send", "datachannel.sendBinary", "datachannel.close",
      "datachannel.setBufferedAmountLowThreshold" }

\* C9: a request or notification that needs an identifier and has none
\* fails with the "missing" TypeError and changes neither registry; for
\* createDataChannel no engine channel is created either.
C9_MissingIdBadRequest ==
    [][(last'.op \in NeedsId /\ last'.arg = NoneVal) =>
          /\ last'.res = BadRequest
          /\ Silent(last')
          /\ UNCHANGED << registries, handles >>]_vars

\* C10: getSenderStats and getReceiverStats of a mid that no engine
\* transceiver has fail with the not-found error, collect no statistics and
\* change neither registry.
C10_UnknownMidNotFound ==
    [][\A m \in Mids :
          (last'.op \in {"handler.getSenderStats", "handler.getReceiverStats"}
             /\ last'.arg = m /\ getTransceiverByMid(m) = 0) =>
              /\ last'.res = NotFound
              /\ Silent(last')
              /\ UNCHANGED registries]_vars

\* C11: once close has called self._pc.close(), no request and no
\* notification is accepted (each fails), and no step (addTrack, removeTrack,
\* createDataChannel, datachannel.close, the handler of an engine close
\* event) adds an entry to or removes one from self._transceivers or
\* self._dataChannels.
C11_NoMutationAfterClose ==
    [][pcCloseCalls > 0 =>
          /\ UNCHANGED registries
          /\ last'.op \in RequestMethods \cup NotificationEvents =>
                last'.res # Ok]_vars

\* C12: self._pc.close() is called at most once in the life of a Handler,
\* however often close is called.
C12_EngineReleasedOnce == pcCloseCalls <= 1

\* The transceiver is shut: direction inactive and no outgoing track.
Shut(t) == t.direction = "inactive" /\ t.senderTrack = NoneVal

\* C13: removeTrack of a registered trackId sets the direction to inactive,
\* then clears the sender's track, then deletes the entry: when the entry is
\* gone the transceiver is inactive and has no outgoing track, a track that
\* is cleared belongs to a transceiver that is inactive already (also when
\* the request fails midway), and a transceiver that is shut stays shut.
C13_RemoveTrackOrder ==
    [][/\ \A t \in TrackIds :
             (last'.op = "handler.removeTrack" /\ last'.arg = t /\ HasTrack(t)) =>
                 /\ ~HasTrack(t)' => Shut(pcTransceivers'[transceivers[t]])
                 /\ last'.res = Ok => ~HasTrack(t)'
                 /\ pcTransceivers'[transceivers[t]].senderTrack = NoneVal =>
                        pcTransceivers'[transceivers[t]].direction = "inactive"
       /\ \A i \in DOMAIN pcTransceivers :
             Shut(pcTransceivers[i]) => Shut(pcTransceivers'[i])]_vars

\* A removeTrack has succeeded while another transceiver is left inactive
\* with its track, still registered, by a removeTrack that failed midway.
C13_Witness ==
    /\ last.op = "handler.removeTrack"
    /\ last.res = Ok
    /\ \E i \in DOMAIN pcTransceivers :
          pcTransceivers[i].track = last.arg /\ Shut(pcTransceivers[i])
    /\ \E t \in TrackIds :
          /\ HasTrack(t)
          /\ pcTransceivers[transceivers[t]].direction = "inactive"
          /\ pcTransceivers[transceivers[t]].senderTrack # NoneVal

\* The step sends the notification `event` keyed by d.
Sends(step, d, event) ==
    \E i \in DOMAIN step.notes : step.notes[i] = Notify(d, event)

\* C14: the `closing` notification of a channel that was registered when the
\* engine raised `closing` is sent while the channel's id is still a key, and
\* sending it leaves self._dataChannels as it is; the handler of `close`
\* removes the entry of a still registered id and then sends `close`; and
\* whenever a `close` keyed by d is sent, d is no key of self._dataChannels.
C14_LifecycleBookkeeping ==
    [][/\ (last'.op = "on_closing" /\ Head(tasks).reg) =>
             /\ Sends(last', last'.arg, "closing")
             /\ HasChannel(last'.arg)
             /\ dataChannels' = dataChannels
       /\ (last'.op = "on_close" /\ HasChannel(last'.arg)) =>
             Sends(last', last'.arg, "close")
       /\ \A d \in DcIds \cup {NoneVal} :
             Sends(last', d, "close") => ~HasChannel(d)']_vars

\* The handlers of the data-channel events.
HandlerOps == {HandlerOf(ev) : ev \in EngineEvents}

C16_NoReportAfterClose ==
    [][/\ last'.op = "close" =>
             /\ pollerPc' \in {"cancelled", "crashed"}
             /\ "pc.close" \in last'.calls
       /\ pcCloseCalls > 0 =>
             /\ last'.op # "poller"
             /\ pollerPc' = pollerPc
             /\ pollerPc \in {"cancelled", "crashed"}]_vars

\* close has cancelled the poller in the middle of its for loop, while two
\* channels are registered.
C16_Witness ==
    /\ last.op = "close"
    /\ last.arg = "iter"
    /\ pollerPc = "cancelled"
    /\ DictLen(dataChannels) = 2

\* C17: under fair scheduling, a data channel whose id stays registered
\* from some point on, in a session that is never closed, is reported by a
\* `bufferedamount` notification of the poller again and again.
C17_PollerKeepsReporting ==
    \A d \in DcIds :
        <>[](HasChannel(d) /\ pcCloseCalls = 0) =>
            []<>(last.op = "poller" /\ Sends(last, d, "bufferedamount"))

\* C18: a trackId becomes a key of self._transceivers only by a successful
\* addTrack that resolves that track and stops being one only by a
\* successful removeTrack of it; any other step (another request, a
\* notification, an engine event, a handler, the poller, close) leaves
\* self._transceivers as it is.
C18_TransceiverRegistryFrame ==
    [][\A t \in TrackIds :
          /\ (~HasTrack(t) /\ HasTrack(t)') =>
                /\ last'.op = "handler.addTrack"
                /\ last'.arg = t
                /\ last'.res = Ok
          /\ (HasTrack(t) /\ ~HasTrack(t)') =>
                /\ last'.op = "handler.removeTrack"
                /\ last'.arg = t
                /\ last'.res = Ok
          /\ last'.op \notin {"handler.addTrack", "handler.removeTrack"} =>
                transceivers'[t] = transceivers[t]]_vars

\* A removeTrack has taken one entry away and the entry of the other track
\* is still there.
C18_Witness ==
    /\ last.op = "handler.removeTrack"
    /\ last.res = Ok
    /\ ~HasTrack(last.arg)
    /\ \E t \in TrackIds : HasTrack(t) /\ Len(pcTransceivers) = 2

\* C19: every engine transceiver that addTrack created and removeTrack has
\* not made inactive is the value of an entry of self._transceivers, also
\* after addTrack has resolved the same track twice.
C19_NoOrphanTransceiver ==
    \A i \in DOMAIN pcTransceivers :
        pcTransceivers[i].direction # "inactive" =>
            \E t \in TrackIds : transceivers[t] = i

\* C20: the handler of the close event of a channel object that is not the
\* one registered under its id (the id was closed or replaced, and may be
\* registered again for a newer object) removes no entry of
\* self._dataChannels and sends no `close` notification.
C20_CloseEventOwnHandleOnly ==
    [][\A h \in DOMAIN handles :
          (last'.op = "on_close" /\ last'.h = h /\ ~Registered(h)) =>
              /\ dataChannels' = dataChannels
              /\ last'.notes = << >>]_vars

====
